---- MODULE Spec2Model ----
(***************************************************************************)
(* Model of backend/backend_app.py: a Flask service keeping blog posts in  *)
(* the module-level list POSTS, with four handlers (list_posts, add_post,  *)
(* update_post, delete_post) served one request at a time.                 *)
(*                                                                         *)
(* Text that the code inspects character by character (titles, contents,   *)
(* the search string) is a sequence of code points, so that str.lower(),   *)
(* str.strip(), the substring test and the string order are computed.      *)
(* Text that the code only compares for equality (dictionary keys, the     *)
(* sort and direction parameters) is a TLA+ string.                        *)
(*                                                                         *)
(* A JSON value is a record [t, s, n]: t = "str" with the text in s, or    *)
(* t = "num" with the number in n.  A JSON object (a request body, a post) *)
(* is a function from a finite set of keys to JSON values.                 *)
(***************************************************************************)
EXTENDS Integers, Sequences, FiniteSets, TLC

VARIABLES
    POSTS,      \* the list POSTS
    req,        \* the request served last
    resp,       \* the response to it
    assigned    \* history: every id a post has ever held

vars == <<POSTS, req, resp, assigned>>

----------------------------------------------------------------------------
(* Bounds *)

\* add_post is not served once the largest id has reached this value
MaxId == 4
\* add_post is not served once the list holds this many posts
MaxPosts == MaxId

----------------------------------------------------------------------------
(* JSON values and text *)

Str(s) == [t |-> "str", s |-> s, n |-> 0]
Num(n) == [t |-> "num", s |-> <<>>, n |-> n]

IsStr(v) == v.t = "str"

\* the JSON object without keys, {}
EmptyObject == [k \in {} |-> Num(0)]

\* Tables of str.lower() and str.strip(), as CPython 3.11 (Unicode 14.0.0)
\* computes them for every code point 0..1114111.

\* c lies in one of the ranges <<lo, hi>> of R
InRanges(c, R) == \E r \in R : r[1] <= c /\ c <= r[2]

\* the code points with a one-code-point lowercase other than themselves, as
\* runs <<lo, hi, step, delta>>: c = lo, lo + step, ..., hi lowers to c + delta
LowerRuns ==
    {
      <<65, 90, 1, 32>>, <<192, 214, 1, 32>>, <<216, 222, 1, 32>>, <<256, 302, 2, 1>>,
      <<306, 310, 2, 1>>, <<313, 327, 2, 1>>, <<330, 374, 2, 1>>, <<376, 376, 1, -121>>,
      <<377, 381, 2, 1>>, <<385, 385, 1, 210>>, <<386, 388, 2, 1>>, <<390, 390, 1, 206>>,
      <<391, 391, 1, 1>>, <<393, 394, 1, 205>>, <<395, 395, 1, 1>>, <<398, 398, 1, 79>>,
      <<399, 399, 1, 202>>, <<400, 400, 1, 203>>, <<401, 401, 1, 1>>, <<403, 403, 1, 205>>,
      <<404, 404, 1, 207>>, <<406, 406, 1, 211>>, <<407, 407, 1, 209>>, <<408, 408, 1, 1>>,
      <<412, 412, 1, 211>>, <<413, 413, 1, 213>>, <<415, 415, 1, 214>>, <<416, 420, 2, 1>>,
      <<422, 422, 1, 218>>, <<423, 423, 1, 1>>, <<425, 425, 1, 218>>, <<428, 428, 1, 1>>,
      <<430, 430, 1, 218>>, <<431, 431, 1, 1>>, <<433, 434, 1, 217>>, <<435, 437, 2, 1>>,
      <<439, 439, 1, 219>>, <<440, 440, 1, 1>>, <<444, 444, 1, 1>>, <<452, 452, 1, 2>>,
      <<453, 453, 1, 1>>, <<455, 455, 1, 2>>, <<456, 456, 1, 1>>, <<458, 458, 1, 2>>,
      <<459, 475, 2, 1>>, <<478, 494, 2, 1>>, <<497, 497, 1, 2>>, <<498, 500, 2, 1>>,
      <<502, 502, 1, -97>>, <<503, 503, 1, -56>>, <<504, 542, 2, 1>>, <<544, 544, 1, -130>>,
      <<546, 562, 2, 1>>, <<570, 570, 1, 10795>>, <<571, 571, 1, 1>>, <<573, 573, 1, -163>>,
      <<574, 574, 1, 10792>>, <<577, 577, 1, 1>>, <<579, 579, 1, -195>>, <<580, 580, 1, 69>>,
      <<581, 581, 1, 71>>, <<582, 590, 2, 1>>, <<880, 882, 2, 1>>, <<886, 886, 1, 1>>,
      <<895, 895, 1, 116>>, <<902, 902, 1, 38>>, <<904, 906, 1, 37>>, <<908, 908, 1, 64>>,
      <<910, 911, 1, 63>>, <<913, 929, 1, 32>>, <<931, 939, 1, 32>>, <<975, 975, 1, 8>>,
      <<984, 1006, 2, 1>>, <<1012, 1012, 1, -60>>, <<1015, 1015, 1, 1>>, <<1017, 1017, 1, -7>>,
      <<1018, 1018, 1, 1>>, <<1021, 1023, 1, -130>>, <<1024, 1039, 1, 80>>, <<1040, 1071, 1, 32>>,
      <<1120, 1152, 2, 1>>, <<1162, 1214, 2, 1>>, <<1216, 1216, 1, 15>>, <<1217, 1229, 2, 1>>,
      <<1232, 1326, 2, 1>>, <<1329, 1366, 1, 48>>, <<4256, 4293, 1, 7264>>, <<4295, 4295, 1, 7264>>,
      <<4301, 4301, 1, 7264>>, <<5024, 5103, 1, 38864>>, <<5104, 5109, 1, 8>>, <<7312, 7354, 1, -3008>>,
      <<7357, 7359, 1, -3008>>, <<7680, 7828, 2, 1>>, <<7838, 7838, 1, -7615>>, <<7840, 7934, 2, 1>>,
      <<7944, 7951, 1, -8>>, <<7960, 7965, 1, -8>>, <<7976, 7983, 1, -8>>, <<7992, 7999, 1, -8>>,
      <<8008, 8013, 1, -8>>, <<8025, 8031, 2, -8>>, <<8040, 8047, 1, -8>>, <<8072, 8079, 1, -8>>,
      <<8088, 8095, 1, -8>>, <<8104, 8111, 1, -8>>, <<8120, 8121, 1, -8>>, <<8122, 8123, 1, -74>>,
      <<8124, 8124, 1, -9>>, <<8136, 8139, 1, -86>>, <<8140, 8140, 1, -9>>, <<8152, 8153, 1, -8>>,
      <<8154, 8155, 1, -100>>, <<8168, 8169, 1, -8>>, <<8170, 8171, 1, -112>>, <<8172, 8172, 1, -7>>,
      <<8184, 8185, 1, -128>>, <<8186, 8187, 1, -126>>, <<8188, 8188, 1, -9>>, <<8486, 8486, 1, -7517>>,
      <<8490, 8490, 1, -8383>>, <<8491, 8491, 1, -8262>>, <<8498, 8498, 1, 28>>, <<8544, 8559, 1, 16>>,
      <<8579, 8579, 1, 1>>, <<9398, 9423, 1, 26>>, <<11264, 11311, 1, 48>>, <<11360, 11360, 1, 1>>,
      <<11362, 11362, 1, -10743>>, <<11363, 11363, 1, -3814>>, <<11364, 11364, 1, -10727>>, <<11367, 11371, 2, 1>>,
      <<11373, 11373, 1, -10780>>, <<11374, 11374, 1, -10749>>, <<11375, 11375, 1, -10783>>, <<11376, 11376, 1, -10782>>,
      <<11378, 11378, 1, 1>>, <<11381, 11381, 1, 1>>, <<11390, 11391, 1, -10815>>, <<11392, 11490, 2, 1>>,
      <<11499, 11501, 2, 1>>, <<11506, 11506, 1, 1>>, <<42560, 42604, 2, 1>>, <<42624, 42650, 2, 1>>,
      <<42786, 42798, 2, 1>>, <<42802, 42862, 2, 1>>, <<42873, 42875, 2, 1>>, <<42877, 42877, 1, -35332>>,
      <<42878, 42886, 2, 1>>, <<42891, 42891, 1, 1>>, <<42893, 42893, 1, -42280>>, <<42896, 42898, 2, 1>>,
      <<42902, 42920, 2, 1>>, <<42922, 42922, 1, -42308>>, <<42923, 42923, 1, -42319>>, <<42924, 42924, 1, -42315>>,
      <<42925, 42925, 1, -42305>>, <<42926, 42926, 1, -42308>>, <<42928, 42928, 1, -42258>>, <<42929, 42929, 1, -42282>>,
      <<42930, 42930, 1, -42261>>, <<42931, 42931, 1, 928>>, <<42932, 42946, 2, 1>>, <<42948, 42948, 1, -48>>,
      <<42949, 42949, 1, -42307>>, <<42950, 42950, 1, -35384>>, <<42951, 42953, 2, 1>>, <<42960, 42960, 1, 1>>,
      <<42966, 42968, 2, 1>>, <<42997, 42997, 1, 1>>, <<65313, 65338, 1, 32>>, <<66560, 66599, 1, 40>>,
      <<66736, 66771, 1, 40>>, <<66928, 66938, 1, 39>>, <<66940, 66954, 1, 39>>, <<66956, 66962, 1, 39>>,
      <<66964, 66965, 1, 39>>, <<68736, 68786, 1, 64>>, <<71840, 71871, 1, 32>>, <<93760, 93791, 1, 32>>,
      <<125184, 125217, 1, 34>> }

\* the code points the Final_Sigma rule skips (case-ignorable), as ranges
CaseIgnorableRanges ==
    {
      <<39, 39>>, <<46, 46>>, <<58, 58>>, <<94, 94>>, <<96, 96>>,
      <<168, 168>>, <<173, 173>>, <<175, 175>>, <<180, 180>>, <<183, 184>>,
      <<688, 879>>, <<884, 885>>, <<890, 890>>, <<900, 901>>, <<903, 903>>,
      <<1155, 1161>>, <<1369, 1369>>, <<1375, 1375>>, <<1425, 1469>>, <<1471, 1471>>,
      <<1473, 1474>>, <<1476, 1477>>, <<1479, 1479>>, <<1524, 1524>>, <<1536, 1541>>,
      <<1552, 1562>>, <<1564, 1564>>, <<1600, 1600>>, <<1611, 1631>>, <<1648, 1648>>,
      <<1750, 1757>>, <<1759, 1768>>, <<1770, 1773>>, <<1807, 1807>>, <<1809, 1809>>,
      <<1840, 1866>>, <<1958, 1968>>, <<2027, 2037>>, <<2042, 2042>>, <<2045, 2045>>,
      <<2070, 2093>>, <<2137, 2139>>, <<2184, 2184>>, <<2192, 2193>>, <<2200, 2207>>,
      <<2249, 2306>>, <<2362, 2362>>, <<2364, 2364>>, <<2369, 2376>>, <<2381, 2381>>,
      <<2385, 2391>>, <<2402, 2403>>, <<2417, 2417>>, <<2433, 2433>>, <<2492, 2492>>,
      <<2497, 2500>>, <<2509, 2509>>, <<2530, 2531>>, <<2558, 2558>>, <<2561, 2562>>,
      <<2620, 2620>>, <<2625, 2626>>, <<2631, 2632>>, <<2635, 2637>>, <<2641, 2641>>,
      <<2672, 2673>>, <<2677, 2677>>, <<2689, 2690>>, <<2748, 2748>>, <<2753, 2757>>,
      <<2759, 2760>>, <<2765, 2765>>, <<2786, 2787>>, <<2810, 2815>>, <<2817, 2817>>,
      <<2876, 2876>>, <<2879, 2879>>, <<2881, 2884>>, <<2893, 2893>>, <<2901, 2902>>,
      <<2914, 2915>>, <<2946, 2946>>, <<3008, 3008>>, <<3021, 3021>>, <<3072, 3072>>,
      <<3076, 3076>>, <<3132, 3132>>, <<3134, 3136>>, <<3142, 3144>>, <<3146, 3149>>,
      <<3157, 3158>>, <<3170, 3171>>, <<3201, 3201>>, <<3260, 3260>>, <<3263, 3263>>,
      <<3270, 3270>>, <<3276, 3277>>, <<3298, 3299>>, <<3328, 3329>>, <<3387, 3388>>,
      <<3393, 3396>>, <<3405, 3405>>, <<3426, 3427>>, <<3457, 3457>>, <<3530, 3530>>,
      <<3538, 3540>>, <<3542, 3542>>, <<3633, 3633>>, <<3636, 3642>>, <<3654, 3662>>,
      <<3761, 3761>>, <<3764, 3772>>, <<3782, 3782>>, <<3784, 3789>>, <<3864, 3865>>,
      <<3893, 3893>>, <<3895, 3895>>, <<3897, 3897>>, <<3953, 3966>>, <<3968, 3972>>,
      <<3974, 3975>>, <<3981, 3991>>, <<3993, 4028>>, <<4038, 4038>>, <<4141, 4144>>,
      <<4146, 4151>>, <<4153, 4154>>, <<4157, 4158>>, <<4184, 4185>>, <<4190, 4192>>,
      <<4209, 4212>>, <<4226, 4226>>, <<4229, 4230>>, <<4237, 4237>>, <<4253, 4253>>,
      <<4348, 4348>>, <<4957, 4959>>, <<5906, 5908>>, <<5938, 5939>>, <<5970, 5971>>,
      <<6002, 6003>>, <<6068, 6069>>, <<6071, 6077>>, <<6086, 6086>>, <<6089, 6099>>,
      <<6103, 6103>>, <<6109, 6109>>, <<6155, 6159>>, <<6211, 6211>>, <<6277, 6278>>,
      <<6313, 6313>>, <<6432, 6434>>, <<6439, 6440>>, <<6450, 6450>>, <<6457, 6459>>,
      <<6679, 6680>>, <<6683, 6683>>, <<6742, 6742>>, <<6744, 6750>>, <<6752, 6752>>,
      <<6754, 6754>>, <<6757, 6764>>, <<6771, 6780>>, <<6783, 6783>>, <<6823, 6823>>,
      <<6832, 6862>>, <<6912, 6915>>, <<6964, 6964>>, <<6966, 6970>>, <<6972, 6972>>,
      <<6978, 6978>>, <<7019, 7027>>, <<7040, 7041>>, <<7074, 7077>>, <<7080, 7081>>,
      <<7083, 7085>>, <<7142, 7142>>, <<7144, 7145>>, <<7149, 7149>>, <<7151, 7153>>,
      <<7212, 7219>>, <<7222, 7223>>, <<7288, 7293>>, <<7376, 7378>>, <<7380, 7392>>,
      <<7394, 7400>>, <<7405, 7405>>, <<7412, 7412>>, <<7416, 7417>>, <<7468, 7530>>,
      <<7544, 7544>>, <<7579, 7679>>, <<8125, 8125>>, <<8127, 8129>>, <<8141, 8143>>,
      <<8157, 8159>>, <<8173, 8175>>, <<8189, 8190>>, <<8203, 8207>>, <<8216, 8217>>,
      <<8228, 8228>>, <<8231, 8231>>, <<8234, 8238>>, <<8288, 8292>>, <<8294, 8303>>,
      <<8305, 8305>>, <<8319, 8319>>, <<8336, 8348>>, <<8400, 8432>>, <<11388, 11389>>,
      <<11503, 11505>>, <<11631, 11631>>, <<11647, 11647>>, <<11744, 11775>>, <<11823, 11823>>,
      <<12293, 12293>>, <<12330, 12333>>, <<12337, 12341>>, <<12347, 12347>>, <<12441, 12446>>,
      <<12540, 12542>>, <<40981, 40981>>, <<42232, 42237>>, <<42508, 42508>>, <<42607, 42610>>,
      <<42612, 42621>>, <<42623, 42623>>, <<42652, 42655>>, <<42736, 42737>>, <<42752, 42785>>,
      <<42864, 42864>>, <<42888, 42890>>, <<42994, 42996>>, <<43000, 43001>>, <<43010, 43010>>,
      <<43014, 43014>>, <<43019, 43019>>, <<43045, 43046>>, <<43052, 43052>>, <<43204, 43205>>,
      <<43232, 43249>>, <<43263, 43263>>, <<43302, 43309>>, <<43335, 43345>>, <<43392, 43394>>,
      <<43443, 43443>>, <<43446, 43449>>, <<43452, 43453>>, <<43471, 43471>>, <<43493, 43494>>,
      <<43561, 43566>>, <<43569, 43570>>, <<43573, 43574>>, <<43587, 43587>>, <<43596, 43596>>,
      <<43632, 43632>>, <<43644, 43644>>, <<43696, 43696>>, <<43698, 43700>>, <<43703, 43704>>,
      <<43710, 43711>>, <<43713, 43713>>, <<43741, 43741>>, <<43756, 43757>>, <<43763, 43764>>,
      <<43766, 43766>>, <<43867, 43871>>, <<43881, 43883>>, <<44005, 44005>>, <<44008, 44008>>,
      <<44013, 44013>>, <<64286, 64286>>, <<64434, 64450>>, <<65024, 65039>>, <<65043, 65043>>,
      <<65056, 65071>>, <<65106, 65106>>, <<65109, 65109>>, <<65279, 65279>>, <<65287, 65287>>,
      <<65294, 65294>>, <<65306, 65306>>, <<65342, 65342>>, <<65344, 65344>>, <<65392, 65392>>,
      <<65438, 65439>>, <<65507, 65507>>, <<65529, 65531>>, <<66045, 66045>>, <<66272, 66272>>,
      <<66422, 66426>>, <<67456, 67461>>, <<67463, 67504>>, <<67506, 67514>>, <<68097, 68099>>,
      <<68101, 68102>>, <<68108, 68111>>, <<68152, 68154>>, <<68159, 68159>>, <<68325, 68326>>,
      <<68900, 68903>>, <<69291, 69292>>, <<69446, 69456>>, <<69506, 69509>>, <<69633, 69633>>,
      <<69688, 69702>>, <<69744, 69744>>, <<69747, 69748>>, <<69759, 69761>>, <<69811, 69814>>,
      <<69817, 69818>>, <<69821, 69821>>, <<69826, 69826>>, <<69837, 69837>>, <<69888, 69890>>,
      <<69927, 69931>>, <<69933, 69940>>, <<70003, 70003>>, <<70016, 70017>>, <<70070, 70078>>,
      <<70089, 70092>>, <<70095, 70095>>, <<70191, 70193>>, <<70196, 70196>>, <<70198, 70199>>,
      <<70206, 70206>>, <<70367, 70367>>, <<70371, 70378>>, <<70400, 70401>>, <<70459, 70460>>,
      <<70464, 70464>>, <<70502, 70508>>, <<70512, 70516>>, <<70712, 70719>>, <<70722, 70724>>,
      <<70726, 70726>>, <<70750, 70750>>, <<70835, 70840>>, <<70842, 70842>>, <<70847, 70848>>,
      <<70850, 70851>>, <<71090, 71093>>, <<71100, 71101>>, <<71103, 71104>>, <<71132, 71133>>,
      <<71219, 71226>>, <<71229, 71229>>, <<71231, 71232>>, <<71339, 71339>>, <<71341, 71341>>,
      <<71344, 71349>>, <<71351, 71351>>, <<71453, 71455>>, <<71458, 71461>>, <<71463, 71467>>,
      <<71727, 71735>>, <<71737, 71738>>, <<71995, 71996>>, <<71998, 71998>>, <<72003, 72003>>,
      <<72148, 72151>>, <<72154, 72155>>, <<72160, 72160>>, <<72193, 72202>>, <<72243, 72248>>,
      <<72251, 72254>>, <<72263, 72263>>, <<72273, 72278>>, <<72281, 72283>>, <<72330, 72342>>,
      <<72344, 72345>>, <<72752, 72758>>, <<72760, 72765>>, <<72767, 72767>>, <<72850, 72871>>,
      <<72874, 72880>>, <<72882, 72883>>, <<72885, 72886>>, <<73009, 73014>>, <<73018, 73018>>,
      <<73020, 73021>>, <<73023, 73029>>, <<73031, 73031>>, <<73104, 73105>>, <<73109, 73109>>,
      <<73111, 73111>>, <<73459, 73460>>, <<78896, 78904>>, <<92912, 92916>>, <<92976, 92982>>,
      <<92992, 92995>>, <<94031, 94031>>, <<94095, 94111>>, <<94176, 94177>>, <<94179, 94180>>,
      <<110576, 110579>>, <<110581, 110587>>, <<110589, 110590>>, <<113821, 113822>>, <<113824, 113827>>,
      <<118528, 118573>>, <<118576, 118598>>, <<119143, 119145>>, <<119155, 119170>>, <<119173, 119179>>,
      <<119210, 119213>>, <<119362, 119364>>, <<121344, 121398>>, <<121403, 121452>>, <<121461, 121461>>,
      <<121476, 121476>>, <<121499, 121503>>, <<121505, 121519>>, <<122880, 122886>>, <<122888, 122904>>,
      <<122907, 122913>>, <<122915, 122916>>, <<122918, 122922>>, <<123184, 123197>>, <<123566, 123566>>,
      <<123628, 123631>>, <<125136, 125142>>, <<125252, 125259>>, <<127995, 127999>>, <<917505, 917505>>,
      <<917536, 917631>>, <<917760, 917999>> }

\* the cased code points among those the Final_Sigma rule does not skip, as ranges
CasedRanges ==
    {
      <<65, 90>>, <<97, 122>>, <<170, 170>>, <<181, 181>>, <<186, 186>>,
      <<192, 214>>, <<216, 246>>, <<248, 442>>, <<444, 447>>, <<452, 659>>,
      <<661, 687>>, <<880, 883>>, <<886, 887>>, <<891, 893>>, <<895, 895>>,
      <<902, 902>>, <<904, 906>>, <<908, 908>>, <<910, 929>>, <<931, 1013>>,
      <<1015, 1153>>, <<1162, 1327>>, <<1329, 1366>>, <<1376, 1416>>, <<4256, 4293>>,
      <<4295, 4295>>, <<4301, 4301>>, <<4304, 4346>>, <<4349, 4351>>, <<5024, 5109>>,
      <<5112, 5117>>, <<7296, 7304>>, <<7312, 7354>>, <<7357, 7359>>, <<7424, 7467>>,
      <<7531, 7543>>, <<7545, 7578>>, <<7680, 7957>>, <<7960, 7965>>, <<7968, 8005>>,
      <<8008, 8013>>, <<8016, 8023>>, <<8025, 8025>>, <<8027, 8027>>, <<8029, 8029>>,
      <<8031, 8061>>, <<8064, 8116>>, <<8118, 8124>>, <<8126, 8126>>, <<8130, 8132>>,
      <<8134, 8140>>, <<8144, 8147>>, <<8150, 8155>>, <<8160, 8172>>, <<8178, 8180>>,
      <<8182, 8188>>, <<8450, 8450>>, <<8455, 8455>>, <<8458, 8467>>, <<8469, 8469>>,
      <<8473, 8477>>, <<8484, 8484>>, <<8486, 8486>>, <<8488, 8488>>, <<8490, 8493>>,
      <<8495, 8500>>, <<8505, 8505>>, <<8508, 8511>>, <<8517, 8521>>, <<8526, 8526>>,
      <<8544, 8575>>, <<8579, 8580>>, <<9398, 9449>>, <<11264, 11387>>, <<11390, 11492>>,
      <<11499, 11502>>, <<11506, 11507>>, <<11520, 11557>>, <<11559, 11559>>, <<11565, 11565>>,
      <<42560, 42605>>, <<42624, 42651>>, <<42786, 42863>>, <<42865, 42887>>, <<42891, 42894>>,
      <<42896, 42954>>, <<42960, 42961>>, <<42963, 42963>>, <<42965, 42969>>, <<42997, 42998>>,
      <<43002, 43002>>, <<43824, 43866>>, <<43872, 43880>>, <<43888, 43967>>, <<64256, 64262>>,
      <<64275, 64279>>, <<65313, 65338>>, <<65345, 65370>>, <<66560, 66639>>, <<66736, 66771>>,
      <<66776, 66811>>, <<66928, 66938>>, <<66940, 66954>>, <<66956, 66962>>, <<66964, 66965>>,
      <<66967, 66977>>, <<66979, 66993>>, <<66995, 67001>>, <<67003, 67004>>, <<68736, 68786>>,
      <<68800, 68850>>, <<71840, 71903>>, <<93760, 93823>>, <<119808, 119892>>, <<119894, 119964>>,
      <<119966, 119967>>, <<119970, 119970>>, <<119973, 119974>>, <<119977, 119980>>, <<119982, 119993>>,
      <<119995, 119995>>, <<119997, 120003>>, <<120005, 120069>>, <<120071, 120074>>, <<120077, 120084>>,
      <<120086, 120092>>, <<120094, 120121>>, <<120123, 120126>>, <<120128, 120132>>, <<120134, 120134>>,
      <<120138, 120144>>, <<120146, 120485>>, <<120488, 120512>>, <<120514, 120538>>, <<120540, 120570>>,
      <<120572, 120596>>, <<120598, 120628>>, <<120630, 120654>>, <<120656, 120686>>, <<120688, 120712>>,
      <<120714, 120744>>, <<120746, 120770>>, <<120772, 120779>>, <<122624, 122633>>, <<122635, 122654>>,
      <<125184, 125251>>, <<127280, 127305>>, <<127312, 127337>>, <<127344, 127369>> }

\* the ranges of code points str.strip() removes (str.isspace())
SpaceRanges ==
    {
      <<9, 13>>, <<28, 32>>, <<133, 133>>, <<160, 160>>, <<5760, 5760>>,
      <<8192, 8202>>, <<8232, 8233>>, <<8239, 8239>>, <<8287, 8287>>, <<12288, 12288>> }

\* the lowercase of capital sigma at position i is the final sigma: the nearest
\* code point before it that is not case-ignorable is cased, and the nearest
\* one behind it, if any, is not
FinalSigma(s, i) ==
    LET before == {j \in 1..(i - 1) : ~InRanges(s[j], CaseIgnorableRanges)}
        behind == {j \in (i + 1)..Len(s) : ~InRanges(s[j], CaseIgnorableRanges)}
    IN  /\ before # {}
        /\ InRanges(s[CHOOSE j \in before : \A k \in before : k <= j], CasedRanges)
        /\ \/ behind = {}
           \/ ~InRanges(s[CHOOSE j \in behind : \A k \in behind : j <= k], CasedRanges)

\* the lowercase of the code point at position i of s, one or two code points:
\* U+0130 lowers to "i" and U+0307, capital sigma depends on its place
LowerAt(s, i) ==
    LET c == s[i]
    IN  IF c < 128 THEN <<IF c \in 65..90 THEN c + 32 ELSE c>>
        ELSE IF c = 304 THEN <<105, 775>>
        ELSE IF c = 931 THEN <<IF FinalSigma(s, i) THEN 962 ELSE 963>>
        ELSE LET hits == {r \in LowerRuns :
                             r[1] <= c /\ c <= r[2] /\ (c - r[1]) % r[3] = 0}
             IN  IF hits = {} THEN <<c>>
                 ELSE <<c + (CHOOSE r \in hits : TRUE)[4]>>

RECURSIVE LowerUpTo(_, _)
\* the lowercase of the first n code points of s
LowerUpTo(s, n) == IF n = 0 THEN <<>> ELSE LowerUpTo(s, n - 1) \o LowerAt(s, n)

\* str.lower()
Lower(s) == LowerUpTo(s, Len(s))

\* the code points str.strip() removes
IsSpace(c) == InRanges(c, SpaceRanges)

\* str.strip(): s without its leading and trailing whitespace
Strip(s) ==
    LET keep == {i \in 1..Len(s) : ~IsSpace(s[i])}
    IN  IF keep = {} THEN <<>>
        ELSE LET lo == CHOOSE i \in keep : \A j \in keep : i <= j
                 hi == CHOOSE i \in keep : \A j \in keep : j <= i
             IN  SubSeq(s, lo, hi)

\* needle in hay, for two str
Contains(hay, needle) ==
    \E i \in 0..(Len(hay) - Len(needle)) :
        SubSeq(hay, i + 1, i + Len(needle)) = needle

\* a < b, for two str: the order of the first differing code point, a proper
\* prefix first
StrLess(a, b) ==
    \E i \in 1..(Len(b)) :
        /\ \A j \in 1..(i - 1) : j <= Len(a) /\ a[j] = b[j]
        /\ \/ i = Len(a) + 1
           \/ i <= Len(a) /\ a[i] < b[i]

\* dict.get(key, ""): the value under key, the empty text when the key is absent
Get(post, key) == IF key \in DOMAIN post THEN post[key] ELSE Str(<<>>)

----------------------------------------------------------------------------
(* The seed posts *)

\* "Hello World"
HelloWorld == <<72, 101, 108, 108, 111, 32, 87, 111, 114, 108, 100>>
\* "This is my first post."
FirstPost == <<84, 104, 105, 115, 32, 105, 115, 32, 109, 121, 32, 102, 105,
               114, 115, 116, 32, 112, 111, 115, 116, 46>>
\* "Flask Tutorial"
FlaskTutorial == <<70, 108, 97, 115, 107, 32, 84, 117, 116, 111, 114, 105, 97, 108>>
\* "Learn Flask with me."
LearnFlask == <<76, 101, 97, 114, 110, 32, 70, 108, 97, 115, 107, 32, 119,
                105, 116, 104, 32, 109, 101, 46>>
\* "Python Tips"
PythonTips == <<80, 121, 116, 104, 111, 110, 32, 84, 105, 112, 115>>
\* "Useful Python tricks."
PythonTricks == <<85, 115, 101, 102, 117, 108, 32, 80, 121, 116, 104, 111,
                  110, 32, 116, 114, 105, 99, 107, 115, 46>>

Post(id, title, content) ==
    [k \in {"id", "title", "content"} |->
        IF k = "id" THEN Num(id) ELSE IF k = "title" THEN Str(title) ELSE Str(content)]

SeedPosts ==
    << Post(1, HelloWorld, FirstPost),
       Post(2, FlaskTutorial, LearnFlask),
       Post(3, PythonTips, PythonTricks) >>

----------------------------------------------------------------------------
(* Helpers on the list *)

\* post["id"] of every post of the list
Ids(posts) == {posts[i]["id"].n : i \in 1..Len(posts)}

\* faulty variant of Pop: POSTS.pop() without the index removes the last post
PopLast(posts, i) == SubSeq(posts, 1, Len(posts) - 1)

\* the list without its element at 1-based position i: list.pop(i - 1)
Pop(posts, i) == SubSeq(posts, 1, i - 1) \o SubSeq(posts, i + 1, Len(posts))

\* faulty variant of FirstIndexOf: the id taken for the position in the list
FirstIndexOfByPosition(posts, post_id) ==
    IF post_id \in 1..Len(posts) THEN post_id ELSE 0

\* faulty variant of FirstIndexOf: the loop variable used after a loop that
\* found nothing, which leaves the last post
FirstIndexOfOrLast(posts, post_id) ==
    LET hits == {i \in 1..Len(posts) : posts[i]["id"] = Num(post_id)}
    IN  IF hits = {} THEN Len(posts) ELSE CHOOSE i \in hits : \A j \in hits : i <= j

\* the position of the first post whose id is post_id, 0 when there is none:
\* the loops "for post in POSTS: if post["id"] == post_id"
FirstIndexOf(posts, post_id) ==
    LET hits == {i \in 1..Len(posts) : posts[i]["id"] = Num(post_id)}
    IN  IF hits = {} THEN 0 ELSE CHOOSE i \in hits : \A j \in hits : i <= j

----------------------------------------------------------------------------
(* Responses *)

\* A response is [status, kind, posts, post, missing_fields, id]:
\*   kind "posts"          jsonify(result_posts), the list in posts
\*   kind "post"           jsonify(post), the object in post
\*   kind "deleted"        {"message": "Post with id <id> has been deleted successfully."}
\*   kind "no_data"        {"error": "Keine Daten gesendet"}
\*   kind "missing_fields" {"error": "Fehlende Pflichtfelder", "missing_fields": [...]}
\*   kind "bad_direction"  {"error": "Ungueltige Sortierrichtung. Erlaubt: 'asc', 'desc'"}
\*   kind "not_found"      {"error": "Post nicht gefunden",
\*                          "message": "Kein Post mit ID <id> vorhanden."}
\*   kind "internal"       {"error": "Interner Serverfehler", "details": str(e)}
Response(status, kind) ==
    [status |-> status, kind |-> kind, posts |-> <<>>, post |-> EmptyObject,
     missing_fields |-> <<>>, id |-> 0]

NoResponse == Response(0, "none")

----------------------------------------------------------------------------
(* Query parameters: request.args.get(name) is None for an absent parameter *)

\* search: text the code strips, lowers and looks for
NoText == [present |-> FALSE, v |-> <<>>]
Text(s) == [present |-> TRUE, v |-> s]
\* sort, direction: words the code only compares
NoWord == [present |-> FALSE, v |-> ""]
Word(w) == [present |-> TRUE, v |-> w]

----------------------------------------------------------------------------
(* search_posts *)

\* the filter condition of search_posts raises AttributeError on this post:
\* .lower() of a value that is no str.  The content is only looked at when the
\* title does not hold the query ("or" short-circuits).
MatchRaises(post, query_lower) ==
    LET title == Get(post, "title")
        content == Get(post, "content")
    IN  \/ ~IsStr(title)
        \/ /\ ~Contains(Lower(title.s), query_lower)
           /\ ~IsStr(content)

\* the filter condition of search_posts, for a post on which it does not raise
Matches(post, query_lower) ==
    \/ Contains(Lower(Get(post, "title").s), query_lower)
    \/ Contains(Lower(Get(post, "content").s), query_lower)

\* search_posts(posts, query): [raised, posts]
search_posts(posts, query) ==
    IF query = <<>> THEN [raised |-> FALSE, posts |-> posts]
    ELSE LET query_lower == Lower(query)
         IN  IF \E i \in 1..Len(posts) : MatchRaises(posts[i], query_lower)
             THEN [raised |-> TRUE, posts |-> <<>>]
             ELSE [raised |-> FALSE,
                   posts |-> SelectSeq(posts, LAMBDA p : Matches(p, query_lower))]

----------------------------------------------------------------------------
(* sort_posts *)

\* the sort key: post.get(sort_field, "").lower()
SortKey(post, sort_field) == Lower(Get(post, sort_field).s)

\* x goes before y in the order sorted() builds
KeyBefore(x, y, sort_field, reverse) ==
    IF reverse
    THEN StrLess(SortKey(y, sort_field), SortKey(x, sort_field))
    ELSE StrLess(SortKey(x, sort_field), SortKey(y, sort_field))

\* x put into the sorted list behind every element it does not go before:
\* sorted() is stable, also with reverse=True
Insert(sorted, x, sort_field, reverse) ==
    LET p == Cardinality({i \in 1..Len(sorted) :
                             ~KeyBefore(x, sorted[i], sort_field, reverse)})
    IN  SubSeq(sorted, 1, p) \o <<x>> \o SubSeq(sorted, p + 1, Len(sorted))

RECURSIVE Sorted(_, _, _)
\* sorted(posts, key=..., reverse=reverse)
Sorted(posts, sort_field, reverse) ==
    IF posts = <<>> THEN <<>>
    ELSE Insert(Sorted(SubSeq(posts, 1, Len(posts) - 1), sort_field, reverse),
                posts[Len(posts)], sort_field, reverse)

\* the fields sort_posts sorts by
SortFields == {"title", "content"}

\* sort_posts(posts, sort_field, direction): [raised, posts]
sort_posts(posts, sort_field, direction) ==
    IF sort_field \notin SortFields THEN [raised |-> FALSE, posts |-> posts]
    ELSE IF \E i \in 1..Len(posts) : ~IsStr(Get(posts[i], sort_field))
         THEN [raised |-> TRUE, posts |-> <<>>]
         ELSE [raised |-> FALSE,
               posts |-> Sorted(posts, sort_field, direction = "desc")]

----------------------------------------------------------------------------
(* list_posts *)

\* valid_directions
ValidDirections == {"asc", "desc"}

\* faulty variant of SortGiven: "if sort_field is not None"
SortPresent(sort) == sort.present

\* "if sort_field:": the parameter is given and is not the empty string
SortGiven(sort) == sort.present /\ sort.v # ""

\* request.args.get('direction', 'asc')
DirectionOf(direction) == IF direction.present THEN direction.v ELSE "asc"

\* request.args.get('search', '').strip()
SearchQueryOf(search) == Strip(IF search.present THEN search.v ELSE <<>>)

\* list_posts: the response to GET /api/posts
list_posts(posts, search, sort, direction) ==
    LET found == search_posts(posts, SearchQueryOf(search))
        dir == DirectionOf(direction)
    IN  IF found.raised THEN Response(500, "internal")
        ELSE IF ~SortGiven(sort)
             THEN [Response(200, "posts") EXCEPT !.posts = found.posts]
             ELSE IF dir \notin ValidDirections
                  THEN Response(400, "bad_direction")
                  ELSE LET sorted == sort_posts(found.posts, sort.v, dir)
                       IN  IF sorted.raised THEN Response(500, "internal")
                           ELSE [Response(200, "posts") EXCEPT !.posts = sorted.posts]

----------------------------------------------------------------------------
(* add_post *)

\* faulty variant of MissingFields: "elif" for the second test reports only the
\* first missing field
MissingFieldsFirst(new_post) ==
    IF "title" \notin DOMAIN new_post THEN <<"title">>
    ELSE IF "content" \notin DOMAIN new_post THEN <<"content">> ELSE <<>>

\* missing_fields, in the order the code appends them
MissingFields(new_post) ==
    (IF "title" \notin DOMAIN new_post THEN <<"title">> ELSE <<>>)
    \o (IF "content" \notin DOMAIN new_post THEN <<"content">> ELSE <<>>)

\* faulty variant of NewId: len(POSTS) + 1
NewIdLen(posts) == Len(posts) + 1

\* max((post["id"] for post in POSTS), default=0) + 1
NewId(posts) ==
    IF posts = <<>> THEN 1
    ELSE (CHOOSE m \in Ids(posts) : \A n \in Ids(posts) : n <= m) + 1

\* faulty variant of WithId: new_post.setdefault("id", new_id) keeps a supplied id
WithIdDefault(new_post, new_id) ==
    [k \in DOMAIN new_post \cup {"id"} |->
        IF k \in DOMAIN new_post THEN new_post[k] ELSE Num(new_id)]

\* new_post["id"] = new_id
WithId(new_post, new_id) ==
    [k \in DOMAIN new_post \cup {"id"} |-> IF k = "id" THEN Num(new_id) ELSE new_post[k]]

\* add_post: [posts, resp], the list afterwards and the response to POST /api/posts
add_post(posts, body) ==
    IF body = EmptyObject
    THEN [posts |-> posts, resp |-> Response(400, "no_data")]
    ELSE IF MissingFields(body) # <<>>
         THEN [posts |-> posts,
               resp |-> [Response(400, "missing_fields")
                            EXCEPT !.missing_fields = MissingFields(body)]]
         ELSE LET new_post == WithId(body, NewId(posts))
              IN  [posts |-> Append(posts, new_post),
                   resp |-> [Response(201, "post") EXCEPT !.post = new_post]]

----------------------------------------------------------------------------
(* update_post *)

\* faulty variant of Merge: post.update(updated_data), the id included
MergeAll(post, updated_data) ==
    [k \in DOMAIN post \cup DOMAIN updated_data |->
        IF k \in DOMAIN updated_data THEN updated_data[k] ELSE post[k]]

\* faulty variant of Merge: the post replaced by the body, only its id kept
MergeReplace(post, updated_data) ==
    [k \in DOMAIN updated_data \cup {"id"} |->
        IF k = "id" THEN post["id"] ELSE updated_data[k]]

\* "for key, value in updated_data.items(): if key != "id": post[key] = value"
Merge(post, updated_data) ==
    LET keys == DOMAIN updated_data \ {"id"}
    IN  [k \in DOMAIN post \cup keys |-> IF k \in keys THEN updated_data[k] ELSE post[k]]

\* update_post: [posts, resp], the list afterwards and the response to PUT
\* /api/posts/<post_id>
update_post(posts, post_id, updated_data) ==
    IF updated_data = EmptyObject
    THEN [posts |-> posts, resp |-> Response(400, "no_data")]
    ELSE LET i == FirstIndexOf(posts, post_id)
         IN  IF i = 0
             THEN [posts |-> posts,
                   resp |-> [Response(404, "not_found") EXCEPT !.id = post_id]]
             ELSE LET post == Merge(posts[i], updated_data)
                  IN  [posts |-> [posts EXCEPT ![i] = post],
                       resp |-> [Response(200, "post") EXCEPT !.post = post]]

----------------------------------------------------------------------------
(* delete_post *)

\* delete_post: [posts, resp], the list afterwards and the response to DELETE
\* /api/posts/<post_id>
delete_post(posts, post_id) ==
    LET i == FirstIndexOf(posts, post_id)
    IN  IF i = 0
        THEN [posts |-> posts,
              resp |-> [Response(404, "not_found") EXCEPT !.id = post_id]]
        ELSE [posts |-> Pop(posts, i),
              resp |-> [Response(200, "deleted") EXCEPT !.id = post_id]]

----------------------------------------------------------------------------
(* Requests *)

Request(op) ==
    [op |-> op, id |-> 0, body |-> EmptyObject,
     search |-> NoText, sort |-> NoWord, direction |-> NoWord]

\* "gamma"
Gamma == <<103, 97, 109, 109, 97>>
\* U+00A0 (no-break space) and "M": strips to "M"; "m" is in "... my first
\* post.", "... with me." and "gamma"
SearchM == <<160, 77>>
\* "Y": "y" is in "... my first post." and "Python ...", not in "gamma"
SearchY == <<89>>

\* the value a request body gives to a key: "id": 1, "title": "gamma",
\* "content": "b", "author": "x"
BodyValue(k) ==
    IF k = "id" THEN Num(1)
    ELSE IF k = "title" THEN Str(Gamma)
    ELSE IF k = "content" THEN Str(<<98>>)
    ELSE Str(<<120>>)

\* the JSON object with the keys K
Body(K) == [k \in K |-> BodyValue(k)]

\* the bodies of POST requests: every set of keys, {} included
PostBodies == {Body(K) : K \in SUBSET {"id", "title", "content", "author"}}
\* the bodies of PUT requests: every set of keys, {} included
PutBodies == {Body(K) : K \in SUBSET {"id", "title", "author"}}
\* the ids in the paths of PUT and DELETE requests
PathIds == 1..MaxId

\* the bodies of POST requests while listing is examined: a title that is a
\* number, {"title": 5, "content": "b"}, and a content that is a number,
\* {"title": "gamma", "content": 7}
ListPostBodies ==
    { [Body({"title", "content"}) EXCEPT !["title"] = Num(5)],
      [Body({"title", "content"}) EXCEPT !["content"] = Num(7)] }
\* the values of the search parameter: absent, " ", "\u00a0M", "Y"
Searches == {NoText, Text(<<32>>), Text(SearchM), Text(SearchY)}
\* the values of the sort parameter
Sorts == {NoWord, Word(""), Word("title"), Word("content"), Word("id")}
\* the values of the direction parameter
Directions == {NoWord, Word("asc"), Word("desc"), Word("bogus")}

----------------------------------------------------------------------------
(* The service *)

Init ==
    /\ POSTS = SeedPosts
    /\ req = Request("none")
    /\ resp = NoResponse
    /\ assigned = Ids(SeedPosts)

\* GET /api/posts?search=&sort=&direction=
ListPosts(search, sort, direction) ==
    /\ req' = [Request("GET") EXCEPT !.search = search, !.sort = sort,
                                     !.direction = direction]
    /\ resp' = list_posts(POSTS, search, sort, direction)
    /\ UNCHANGED <<POSTS, assigned>>

\* POST /api/posts
AddPost(body) ==
    /\ Len(POSTS) < MaxPosts
    /\ \A n \in Ids(POSTS) : n < MaxId
    /\ LET r == add_post(POSTS, body)
       IN  /\ req' = [Request("POST") EXCEPT !.body = body]
           /\ POSTS' = r.posts
           /\ resp' = r.resp
           /\ assigned' = IF r.resp.status = 201
                          THEN assigned \cup {r.resp.post["id"].n}
                          ELSE assigned

\* PUT /api/posts/<post_id>
UpdatePost(post_id, body) ==
    LET r == update_post(POSTS, post_id, body)
    IN  /\ req' = [Request("PUT") EXCEPT !.id = post_id, !.body = body]
        /\ POSTS' = r.posts
        /\ resp' = r.resp
        /\ UNCHANGED assigned

\* DELETE /api/posts/<post_id>
DeletePost(post_id) ==
    LET r == delete_post(POSTS, post_id)
    IN  /\ req' = [Request("DELETE") EXCEPT !.id = post_id]
        /\ POSTS' = r.posts
        /\ resp' = r.resp
        /\ UNCHANGED assigned

\* every request but a GET with parameters
Next ==
    \/ ListPosts(NoText, NoWord, NoWord)
    \/ \E b \in PostBodies : AddPost(b)
    \/ \E k \in PathIds, b \in PutBodies : UpdatePost(k, b)
    \/ \E k \in PathIds : DeletePost(k)

Spec == Init /\ [][Next]_vars

\* GET with every combination of parameters, on the lists POST and DELETE build
NextList ==
    \/ \E s \in Searches, f \in Sorts, d \in Directions : ListPosts(s, f, d)
    \/ \E b \in ListPostBodies : AddPost(b)
    \/ \E k \in PathIds : DeletePost(k)

SpecList == Init /\ [][NextList]_vars

----------------------------------------------------------------------------
(* Properties of create, update and delete, under Spec *)

\* n is the id a create has to assign to a post appended to posts
IsNextId(posts, n) ==
    \/ posts = <<>> /\ n = 1
    \/ posts # <<>> /\ n - 1 \in Ids(posts) /\ \A m \in Ids(posts) : m <= n - 1

\* the posts of the list other than those with id k, in their order
Without(posts, k) == SelectSeq(posts, LAMBDA p : p["id"] # Num(k))

\* C1: after any sequence of POST, PUT and DELETE requests from the three seed
\* posts, no two posts of the list have the same id.
C1_UniqueIds ==
    \A i, j \in 1..Len(POSTS) : i # j => POSTS[i]["id"] # POSTS[j]["id"]

\* a POST whose body carried the id of a post of the list has created a post
C1_Witness ==
    /\ req.op = "POST" /\ resp.status = 201
    /\ "id" \in DOMAIN req.body
    /\ \E i \in 1..(Len(POSTS) - 1) : POSTS[i]["id"] = req.body["id"]

\* C2: a POST whose body holds title and content returns 201 and appends one
\* post: its id is 1 + the largest id before (1 on the empty list) whatever id
\* the body supplied, every other supplied field is stored as supplied, and the
\* posts already there are unchanged.
C2_CreateAppends ==
    [][ (req'.op = "POST" /\ {"title", "content"} \subseteq DOMAIN req'.body) =>
          /\ resp'.status = 201
          /\ Len(POSTS') = Len(POSTS) + 1
          /\ SubSeq(POSTS', 1, Len(POSTS)) = POSTS
          /\ LET created == POSTS'[Len(POSTS')]
             IN  /\ created["id"].t = "num"
                 /\ IsNextId(POSTS, created["id"].n)
                 /\ DOMAIN created = DOMAIN req'.body \cup {"id"}
                 /\ \A k \in DOMAIN req'.body \ {"id"} : created[k] = req'.body[k]
                 /\ resp'.post = created ]_vars

\* a POST with a supplied id and an extra field has created a post under another id
C2_Witness ==
    /\ req.op = "POST" /\ resp.status = 201
    /\ {"id", "author"} \subseteq DOMAIN req.body
    /\ POSTS[Len(POSTS)]["id"] # req.body["id"]
    /\ POSTS[Len(POSTS)]["author"] = req.body["author"]

\* the fields among title and content that a body lacks
Absent(body) == {"title", "content"} \ DOMAIN body

\* the response is 400 with a missing_fields list naming exactly the absent fields
NamesAbsent(r, body) ==
    /\ r.status = 400 /\ r.kind = "missing_fields"
    /\ {r.missing_fields[i] : i \in 1..Len(r.missing_fields)} = Absent(body)
    /\ Len(r.missing_fields) = Cardinality(Absent(body))

\* C3, as claimed: every POST whose body lacks title or content, {} included,
\* is answered 400 with a missing_fields list naming exactly the absent fields,
\* and leaves the list unchanged.
C3_Original ==
    [][ (req'.op = "POST" /\ Absent(req'.body) # {}) =>
          NamesAbsent(resp', req'.body) /\ POSTS' = POSTS ]_vars

\* C3, amended: a POST whose body is a non-empty object lacking title or content
\* is answered 400 with a missing_fields list naming exactly the absent fields;
\* the empty object {} is answered 400 "Keine Daten gesendet" without a
\* missing_fields list; the list is unchanged in both cases.
C3_MissingFields ==
    [][ (req'.op = "POST" /\ Absent(req'.body) # {}) =>
          /\ POSTS' = POSTS
          /\ IF req'.body = EmptyObject
             THEN resp'.status = 400 /\ resp'.kind = "no_data"
             ELSE NamesAbsent(resp', req'.body) ]_vars

\* a POST with a non-empty body lacking both fields has been refused naming both
C3_Witness ==
    /\ req.op = "POST" /\ req.body # EmptyObject
    /\ Absent(req.body) = {"title", "content"}
    /\ resp.status = 400 /\ Len(resp.missing_fields) = 2

\* C4: a PUT with a non-empty body to an id k of the list returns 200 and sets
\* on post k every key of the body but id; the id of post k, its other fields,
\* its position and every other post are unchanged.
C4_UpdateMerges ==
    [][ (req'.op = "PUT" /\ req'.body # EmptyObject /\ req'.id \in Ids(POSTS)) =>
          /\ resp'.status = 200
          /\ Len(POSTS') = Len(POSTS)
          /\ \A i \in 1..Len(POSTS) :
                IF POSTS[i]["id"] = Num(req'.id)
                THEN /\ POSTS'[i]["id"] = POSTS[i]["id"]
                     /\ DOMAIN POSTS'[i] = DOMAIN POSTS[i] \cup DOMAIN req'.body
                     /\ \A k \in DOMAIN req'.body \ {"id"} :
                            POSTS'[i][k] = req'.body[k]
                     /\ \A k \in DOMAIN POSTS[i] \ DOMAIN req'.body :
                            POSTS'[i][k] = POSTS[i][k]
                     /\ resp'.post = POSTS'[i]
                ELSE POSTS'[i] = POSTS[i] ]_vars

\* a PUT naming another id, the title and a new field has updated a seed post
C4_Witness ==
    /\ req.op = "PUT" /\ resp.status = 200
    /\ {"id", "title", "author"} \subseteq DOMAIN req.body
    /\ req.body["id"] # Num(req.id)
    /\ \E i \in 1..Len(POSTS) :
          /\ POSTS[i]["id"] = Num(req.id)
          /\ POSTS[i]["title"] = req.body["title"]
          /\ POSTS[i]["author"] = req.body["author"]
          /\ POSTS[i]["content"] = SeedPosts[req.id]["content"]

\* C5, as claimed: a PUT with a JSON object as body to an id that is not in the
\* list returns 404 carrying the id and leaves the list unchanged.
C5_Original ==
    [][ (req'.op = "PUT" /\ req'.id \notin Ids(POSTS)) =>
          /\ resp'.status = 404 /\ resp'.kind = "not_found" /\ resp'.id = req'.id
          /\ POSTS' = POSTS ]_vars

\* C5, amended: a PUT with a non-empty JSON object as body to an id that is not
\* in the list returns 404 carrying the id; with the empty object {} it returns
\* 400 "Keine Daten gesendet"; the list is unchanged in both cases.
C5_UpdateNotFound ==
    [][ (req'.op = "PUT" /\ req'.id \notin Ids(POSTS)) =>
          /\ POSTS' = POSTS
          /\ IF req'.body = EmptyObject
             THEN resp'.status = 400 /\ resp'.kind = "no_data"
             ELSE resp'.status = 404 /\ resp'.kind = "not_found"
                  /\ resp'.id = req'.id ]_vars

\* a PUT to the id of a deleted seed post, below the length of the list, got 404
C5_Witness ==
    /\ req.op = "PUT" /\ req.body # EmptyObject
    /\ req.id \notin Ids(POSTS) /\ req.id <= Len(POSTS)
    /\ resp.status = 404 /\ resp.id = req.id

\* C6: a DELETE of an id k of the list returns 200 and removes exactly the post
\* with id k, the others keeping their fields and order; a GET without
\* parameters that follows returns a list without a post of id k.
C6_DeleteRemoves ==
    [][ /\ (req'.op = "DELETE" /\ req'.id \in Ids(POSTS)) =>
              /\ resp'.status = 200
              /\ Len(POSTS') = Len(POSTS) - 1
              /\ POSTS' = Without(POSTS, req'.id)
        /\ (/\ req.op = "DELETE" /\ resp.status = 200
            /\ req'.op = "GET" /\ ~req'.search.present /\ ~req'.sort.present
            /\ ~req'.direction.present) =>
              /\ resp'.status = 200
              /\ resp'.posts = POSTS
              /\ \A i \in 1..Len(resp'.posts) : resp'.posts[i]["id"] # Num(req.id) ]_vars

\* a DELETE has removed a post that had posts before and behind it
C6_Witness ==
    /\ req.op = "DELETE" /\ resp.status = 200
    /\ \E i, j \in 1..Len(POSTS) :
          POSTS[i]["id"].n < req.id /\ POSTS[j]["id"].n > req.id

\* C7: a DELETE of an id that is not in the list returns 404 and leaves the list
\* unchanged; so the same DELETE repeated right after a DELETE returns 404 and
\* changes nothing.
C7_DeleteNotFound ==
    [][ /\ (req'.op = "DELETE" /\ req'.id \notin Ids(POSTS)) =>
              /\ resp'.status = 404 /\ resp'.kind = "not_found" /\ resp'.id = req'.id
              /\ POSTS' = POSTS
        /\ (req.op = "DELETE" /\ req'.op = "DELETE" /\ req'.id = req.id) =>
              resp'.status = 404 /\ POSTS' = POSTS ]_vars

\* a DELETE of an id that a post once held got 404 while other posts remain
C7_Witness ==
    /\ req.op = "DELETE" /\ resp.status = 404
    /\ req.id \in assigned /\ POSTS # <<>>

\* C10, as claimed: an id once assigned to a post is never assigned to a post
\* created later, also after the post that held it has been deleted.
C10_Original ==
    [][ (req'.op = "POST" /\ resp'.status = 201) =>
          resp'.post["id"].n \notin assigned ]_vars

\* C10, amended: each create receives an id larger than, hence different from,
\* every id of a post that is in the list at that moment; the id of a deleted
\* post is assigned again once no post of the list has an id that large.
C10_FreshAmongPresent ==
    [][ (req'.op = "POST" /\ resp'.status = 201) =>
          \A n \in Ids(POSTS) : n < resp'.post["id"].n ]_vars

\* a create has received an id that a deleted post held before
C10_Witness ==
    /\ req.op = "POST" /\ resp.status = 201
    /\ resp.post["id"].n \in Ids(SeedPosts)

----------------------------------------------------------------------------
(* Properties of listing, under SpecList *)

\* the direction parameter is given and is neither 'asc' nor 'desc'
BadDirection(d) == d.present /\ d.v # "asc" /\ d.v # "desc"

\* the sort parameter is given and is not the empty string
NonEmptySort(s) == s.present /\ s.v # ""

\* the search filter of the handler fails on the list: .lower() of a title or
\* content that is no text
SearchFails(posts, search) == search_posts(posts, SearchQueryOf(search)).raised

\* C8, as claimed: a GET returns 400 exactly when sort is present and direction
\* is neither 'asc' nor 'desc'; when sort is absent every direction is accepted
\* and the response is 200.
C8_Original ==
    [][ req'.op = "GET" =>
          /\ resp'.status = 400 <=>
                (req'.sort.present /\ BadDirection(req'.direction))
          /\ ~req'.sort.present => resp'.status = 200 ]_vars

\* C8, amended: a GET returns 400 exactly when sort is present and not the
\* empty string, direction is neither 'asc' nor 'desc', and the search filter
\* has not failed before the direction is looked at; when sort is absent or
\* empty every direction is accepted: the response is 200, or 500 when the
\* search filter fails.
C8_DirectionChecked ==
    [][ req'.op = "GET" =>
          /\ resp'.status = 400 <=>
                /\ NonEmptySort(req'.sort)
                /\ BadDirection(req'.direction)
                /\ ~SearchFails(POSTS, req'.search)
          /\ ~NonEmptySort(req'.sort) =>
                resp'.status = IF SearchFails(POSTS, req'.search) THEN 500 ELSE 200 ]_vars

\* a GET with sort given as the empty string and a direction that is neither
\* 'asc' nor 'desc' has been answered 200
C8_Witness ==
    /\ req.op = "GET" /\ req.sort.present /\ req.sort.v = ""
    /\ BadDirection(req.direction)
    /\ resp.status = 200

\* the search string of a request: the search parameter without surrounding
\* whitespace, empty when the parameter is absent
SearchString(search) == IF search.present THEN Strip(search.v) ELSE <<>>

\* the title or the content of the post is text that contains q, case ignored
HoldsText(post, q) ==
    \E f \in {"title", "content"} \cap DOMAIN post :
        IsStr(post[f]) /\ Contains(Lower(post[f].s), Lower(q))

\* the posts of the list that the search string selects, in the order of the list
Selected(posts, q) ==
    IF q = <<>> THEN posts ELSE SelectSeq(posts, LAMBDA p : HoldsText(p, q))

\* list holds the same posts as of, ordered by the lowercased field
OrderedBy(list, of, field, descending) ==
    /\ Len(list) = Len(of)
    /\ {list[i] : i \in 1..Len(list)} = {of[i] : i \in 1..Len(of)}
    /\ \A i \in 1..(Len(list) - 1) :
          IF descending
          THEN ~StrLess(SortKey(list[i], field), SortKey(list[i + 1], field))
          ELSE ~StrLess(SortKey(list[i + 1], field), SortKey(list[i], field))

\* C9, as claimed: a GET with a valid direction returns 200 with exactly the
\* posts whose title or content contains the search string, case ignored (all
\* posts when the search string is absent or empty), in the order of the list
\* when sort is absent or is neither title nor content, and otherwise ordered
\* by the lowercased sort field, ascending for asc and descending for desc.
C9_Original ==
    [][ (req'.op = "GET" /\ ~BadDirection(req'.direction)) =>
          /\ resp'.status = 200
          /\ LET selected == Selected(POSTS, SearchString(req'.search))
             IN  IF req'.sort.present /\ req'.sort.v \in {"title", "content"}
                 THEN OrderedBy(resp'.posts, selected, req'.sort.v,
                                req'.direction.present /\ req'.direction.v = "desc")
                 ELSE resp'.posts = selected ]_vars

====
